---- MODULE Spec2Model ----
(***************************************************************************)
(* FridgeTrack client: the recipes API endpoints (withRetry, generate,     *)
(* getByIngredients), the recipe hooks built on the query cache, the toast *)
(* notification provider and useToast, the recipes page (getItemNames,     *)
(* handleGenerate), the scan API endpoints and the loading skeletons.      *)
(***************************************************************************)
EXTENDS Integers, Sequences, FiniteSets, TLC

\* ---------------------------------------------------------------- constants

\* one retry too many
MAX_RETRIES_4 == 3 + 1

MAX_RETRIES == 3
BASE_DELAY_MS == 1000
\* the factor of Math.random() in withRetry's delay
JITTER_MS == 500

\* granularity of the passage of time while withRetry sleeps
TickMs == 500

RECURSIVE Pow2(_)
Pow2(n) == IF n <= 0 THEN 1 ELSE 2 * Pow2(n - 1)

\* ---------------------------------------------------------------- values

Undefined == "undefined"

\* JavaScript truthiness of an optional string
Truthy(s) == s # Undefined /\ s # ""

\* a || b on optional strings
OrElse(a, b) == IF Truthy(a) THEN a ELSE b

\* A response body of POST /api/get-recipes (BackendRecipeResponse & {error?}).
Body(error, message, hasRecipes, recipes) ==
    [error |-> error, message |-> message, hasRecipes |-> hasRecipes, recipes |-> recipes]

NoBody == Body(Undefined, Undefined, FALSE, <<>>)

\* Lists of backend recipes: name and prep_time as the backend sends them.
RecipeLists == { <<>>,
                 << [name |-> "soup", prep_time |-> "15 min"] >>,
                 << [name |-> "salad", prep_time |-> "quick"],
                    [name |-> "soup", prep_time |-> "15 min"] >> }

\* Bodies the backend answers a 2xx with.
OkBodies ==
    { Body(Undefined, Undefined, TRUE, r) : r \in RecipeLists }
      \cup { Body(Undefined, Undefined, FALSE, <<>>) }
      \cup { Body("", Undefined, TRUE, << [name |-> "soup", prep_time |-> "15 min"] >>) }

ErrorBodies ==
    { Body("Gemini failed", m, FALSE, <<>>) : m \in {Undefined, "", "Quota exceeded"} }
      \cup { Body("Gemini failed", "Quota exceeded",
                  TRUE, << [name |-> "soup", prep_time |-> "15 min"] >>) }

Responses == OkBodies \cup ErrorBodies

\* Bodies carried by a failed HTTP exchange.
FailureBodies == { Body(Undefined, "detail A", FALSE, <<>>),
                   Body(Undefined, "detail B", FALSE, <<>>) }

\* ---------------------------------------------------------------- errors

ApiError(status, message, data) ==
    [kind |-> "ApiError", status |-> status, message |-> message, data |-> data]

\* An error thrown by the runtime (fetch failing), not by the client wrapper.
NetworkError ==
    [kind |-> "TypeError", status |-> 0, message |-> "Failed to fetch", data |-> NoBody]

NoError == [kind |-> "none", status |-> 0, message |-> "", data |-> NoBody]

isApiError(error) == error.kind = "ApiError"

HttpStatuses == {404, 429, 500, 503}

\* What post() can reject with.
PostErrors ==
    { ApiError(s, "Request failed", d) : s \in HttpStatuses, d \in FailureBodies }
      \cup { NetworkError }

RATE_LIMIT_MESSAGE ==
    "Recipe generation is rate-limited. Please wait a moment and try again."

\* ---------------------------------------------------------------- promises

Pending == [state |-> "pending", value |-> <<>>, error |-> NoError]
Resolved(v) == [state |-> "resolved", value |-> v, error |-> NoError]
Rejected(e) == [state |-> "rejected", value |-> <<>>, error |-> e]

\* ---------------------------------------------------------------- state

VARIABLES
    \* recipesApi.generate / withRetry
    pc,           \* "idle", "awaitPost" (fn awaits post), "sleeping" (the backoff timer), "done"
    items,        \* the argument of generate
    attempt,      \* withRetry's loop variable
    lastError,    \* withRetry's lastError
    fnCalls,      \* invocations of fn by withRetry
    posts,        \* POST /api/get-recipes requests sent
    postLog,      \* how each POST settled, in order
    fnLog,        \* how each invocation of fn settled, in order
    delays,       \* the delay of every setTimeout withRetry scheduled, in order
    waited,       \* time elapsed since the pending backoff timer was set
    waits,        \* for each fired backoff timer, the time that had elapsed when it fired
    retryResult,  \* the promise withRetry returned
    result        \* the promise generate returned

retryVars == << pc, items, attempt, lastError, fnCalls, posts, postLog, fnLog, delays,
                waited, waits, retryResult, result >>

\* the recipe hooks (useRecipes) and recipesApi.getByIngredients
VARIABLES
    hookMounted,     \* per query hook: is a component using it mounted
    hookArg,         \* per query hook: the argument of its last render
    freshKeys,       \* the query keys whose cached data is younger than staleTime
    hookLog,         \* what happened to the hooks, in order, and whether queryFn ran
    generateCalls,   \* the arguments recipesApi.generate was called with by the hooks
    searchRequests,  \* requests sent to the backend by getByIngredients
    searchWarnings,  \* console.warn calls of getByIngredients
    searchResults    \* what each call of getByIngredients resolved to, in order

hookVars == << hookMounted, hookArg, freshKeys, hookLog, generateCalls,
               searchRequests, searchWarnings, searchResults >>

\* the toast notification system (ToastProvider)
VARIABLES
    tpMounted,      \* is the ToastProvider mounted
    toasts,         \* the provider's state: the list of ToastItem
    nextId,         \* the module's id counter
    timersRef,      \* timersRef.current: toast id -> handle of its auto-dismiss timer
    pendingTimers,  \* the timers set and neither fired nor cleared
    nextHandle,     \* the handle the next setTimeout returns
    toastClock,     \* per toast in the list: its age and the age at which it was marked exiting
    lastRemoved,    \* the clock of the toast removed last, with the age at which it was removed
    dismissCalls,   \* calls of dismiss made by the user (button or toast.dismiss)
    lateCallbacks   \* timer callbacks calling setToasts that ran after the unmount

toastVars == << tpMounted, toasts, nextId, timersRef, pendingTimers, nextHandle,
                toastClock, lastRemoved, dismissCalls, lateCallbacks >>

\* the components that call useToast
VARIABLES
    useToastLog     \* every call of useToast: the providers above the caller, and the outcome

consumerVars == << useToastLog >>

\* RecipesPage
VARIABLES
    inventoryItems,  \* the data of useInventory
    pageNow,         \* the local time at which itemNames was computed
    itemNames,       \* the memoized getItemNames(inventoryItems)
    status,          \* the page's status state
    pageError,       \* the page's error state
    generateArgs,    \* each call of recipesApi.generate by handleGenerate: the itemNames it saw, the list it passed
    pageRecipes,     \* the page's recipes state
    pagePending      \* the handleGenerate calls awaiting recipesApi.generate

pageVars == << inventoryItems, pageNow, itemNames, status, pageError, generateArgs,
              pageRecipes, pagePending >>

\* scanApi
VARIABLES
    scanPc,          \* "idle", "uploading" (uploadImage awaits upload), "fetching" (getScanHistory awaits get)
    scanArg,         \* the file of the pending uploadImage call
    uploadRequests,  \* the files sent to POST /api/scan, in order
    uploadLog,       \* every settled uploadImage call: its file, whether a request was sent, its result
    historyLog       \* every settled getScanHistory call: how get settled, its result

scanVars == << scanPc, scanArg, uploadRequests, uploadLog, historyLog >>

\* the loading skeletons
VARIABLES
    styleInjected,    \* the module's flag
    documentDefined,  \* typeof document !== 'undefined'
    headStyles,       \* the shimmer <style> elements appended to document.head
    skeletonRenders   \* the skeleton components rendered, in order, each with what it found and did

skeletonVars == << styleInjected, documentDefined, headStyles, skeletonRenders >>

clientVars == << consumerVars, pageVars, scanVars, skeletonVars >>

vars == << retryVars, hookVars, toastVars, clientVars >>

ItemLists == { <<>>, << "milk" >>, << "milk", "egg" >> }

\* ---------------------------------------------------------------- mapRecipe

\* parseInt(s, 10) on the prep_time strings of RawRecipes; nan stands for NaN.
parseInt10(s) ==
    CASE s = "15 min" -> [nan |-> FALSE, n |-> 15]
      [] s = "0"      -> [nan |-> FALSE, n |-> 0]
      [] OTHER        -> [nan |-> TRUE, n |-> 0]

\* parseInt(raw.prep_time, 10) || 0
prepTimeMinutes(s) == IF parseInt10(s).nan THEN 0 ELSE parseInt10(s).n

\* index is the 0-based array index; the id is `generated-${index}`.
mapRecipe(raw, index) ==
    [id |-> index, name |-> raw.name, prep_time_minutes |-> prepTimeMinutes(raw.prep_time)]

mapRecipes(list) == [i \in 1..Len(list) |-> mapRecipe(list[i], i - 1)]

\* ---------------------------------------------------------------- withRetry

\* retrying on 500 as well
isRetryableAlso500(error) ==
    isApiError(error) /\ error.status \in {429, 500, 503}

isRetryable(error) ==
    isApiError(error) /\ (error.status = 429 \/ error.status = 503)

\* the catch block's `if (!isRetryable || attempt === MAX_RETRIES) throw error`
rethrows(error, att) == ~isRetryable(error) \/ att = MAX_RETRIES

\* Math.random() * 500 is in [0, 500)
Jitters == { 0, JITTER_MS \div 2, JITTER_MS - 1 }

\* 2 * attempt in place of 2 ** attempt
backoffDelayLinear(att, jitter) == BASE_DELAY_MS * 2 * att + jitter

backoffDelay(att, jitter) == BASE_DELAY_MS * Pow2(att) + jitter

\* setTimeout(resolve, delay) resolves no earlier than delay after it was set
timerElapsed(w, delay) == w >= delay

\* the for loop's condition
loopContinues(att) == att <= MAX_RETRIES

\* ---------------------------------------------------------------- generate

\* response.error || response.message in place of response.message || response.error
fnOnResponseErrorFirst(response) ==
    IF Truthy(response.error)
    THEN Rejected(ApiError(200, OrElse(response.error, response.message), response))
    ELSE Resolved(mapRecipes(IF response.hasRecipes THEN response.recipes ELSE <<>>))

\* the body of fn once post has resolved with `response`
fnOnResponse(response) ==
    IF Truthy(response.error)
    THEN Rejected(ApiError(200, OrElse(response.message, response.error), response))
    ELSE Resolved(mapRecipes(IF response.hasRecipes THEN response.recipes ELSE <<>>))

\* a catch block that rethrows the 429 as it came
generateCatchNoWrap(error) ==
    IF isApiError(error) /\ error.status = 404
    THEN Resolved(<<>>)
    ELSE Rejected(error)

\* generate's catch block
generateCatch(error) ==
    IF isApiError(error) /\ error.status = 429
    THEN Rejected(ApiError(429, RATE_LIMIT_MESSAGE, error.data))
    ELSE IF isApiError(error) /\ error.status = 404
         THEN Resolved(<<>>)
         ELSE Rejected(error)

\* withRetry invokes fn, which sends the POST and awaits it
InvokeFn ==
    /\ fnCalls' = fnCalls + 1
    /\ posts' = posts + 1
    /\ pc' = "awaitPost"

\* withRetry's promise rejects with `error`; generate's catch block handles it
Throw(error) ==
    /\ retryResult' = Rejected(error)
    /\ result' = generateCatch(error)
    /\ pc' = "done"

\* fn settled with outcome o: the rest of the loop body
AfterFn(o) ==
    /\ fnLog' = Append(fnLog, o)
    /\ IF o.state = "resolved"
       THEN /\ retryResult' = o
            /\ result' = o
            /\ pc' = "done"
            /\ UNCHANGED << lastError, delays, waited >>
       ELSE /\ lastError' = o.error
            /\ IF rethrows(o.error, attempt)
               THEN /\ Throw(o.error)
                    /\ UNCHANGED << delays, waited >>
               ELSE /\ \E j \in Jitters : delays' = Append(delays, backoffDelay(attempt, j))
                    /\ waited' = 0
                    /\ pc' = "sleeping"
                    /\ UNCHANGED << retryResult, result >>
    /\ UNCHANGED << items, attempt, fnCalls, posts, waits >>

\* recipesApi.generate(its): runs synchronously up to the first await of post
Generate ==
    /\ pc = "idle"
    /\ \E its \in ItemLists : items' = its
    /\ attempt' = 0
    /\ InvokeFn
    /\ UNCHANGED << lastError, postLog, fnLog, delays, waited, waits, retryResult, result >>
    /\ UNCHANGED << hookVars, toastVars, clientVars >>

PostResolves ==
    /\ pc = "awaitPost"
    /\ \E response \in Responses :
          /\ postLog' = Append(postLog, Resolved(response))
          /\ AfterFn(fnOnResponse(response))
    /\ UNCHANGED << hookVars, toastVars, clientVars >>

PostRejects ==
    /\ pc = "awaitPost"
    /\ \E error \in PostErrors :
          /\ postLog' = Append(postLog, Rejected(error))
          /\ AfterFn(Rejected(error))
    /\ UNCHANGED << hookVars, toastVars, clientVars >>

\* time passes while the backoff timer is pending
Tick ==
    /\ pc = "sleeping"
    /\ ~timerElapsed(waited, delays[Len(delays)])
    /\ waited' = waited + TickMs
    /\ UNCHANGED << pc, items, attempt, lastError, fnCalls, posts, postLog, fnLog, delays,
                    waits, retryResult, result >>
    /\ UNCHANGED << hookVars, toastVars, clientVars >>

\* a backoff promise whose resolve is never called
TimerNeverResolves == pc = "sleeping" /\ FALSE /\ UNCHANGED vars

\* the backoff timer fires: attempt++, the loop condition, the next fn()
TimerFires ==
    /\ pc = "sleeping"
    /\ timerElapsed(waited, delays[Len(delays)])
    /\ attempt' = attempt + 1
    /\ waits' = Append(waits, waited)
    /\ IF loopContinues(attempt + 1)
       THEN /\ InvokeFn
            /\ UNCHANGED << retryResult, result >>
       ELSE /\ Throw(lastError)
            /\ UNCHANGED << fnCalls, posts >>
    /\ UNCHANGED << items, lastError, postLog, fnLog, delays, waited >>
    /\ UNCHANGED << hookVars, toastVars, clientVars >>

\* ---------------------------------------------------------------- getByIngredients

\* a search that posts the ingredients to /api/recipes/search
getByIngredientsPosting(ingredients) ==
    [result |-> Resolved([i \in 1..Len(ingredients) |-> ingredients[i]]),
     requests |-> 1, warnings |-> 0]

\* recipesApi.getByIngredients: what it resolves to, the requests it sends and
\* the warnings it logs
getByIngredients(ingredients) ==
    [result |-> Resolved(<<>>), requests |-> 0, warnings |-> 1]

\* ---------------------------------------------------------------- useRecipes

Hooks == { "generate", "search" }

\* the arguments the components render the hooks with
HookArgs == { << "milk" >>, << "milk", "egg" >> }

\* events recorded in hookLog at most
MaxHookEvents == 3

\* recipeKeys.generated / recipeKeys.search
recipeKeys(h, arg) ==
    IF h = "generate" THEN << "recipes", "generated" >> \o arg
                      ELSE << "recipes", "search" >> \o arg

\* a query that is fetched on mount
enabledOnMount(h) == TRUE

\* the `enabled` option the hook passes to useQuery
enabled(h) == FALSE

\* The query observer fetches by itself (on mount, on a new key, on window focus)
\* only when the query is enabled and its data is missing or older than staleTime.
fetchesByItself(h, arg) == enabled(h) /\ recipeKeys(h, arg) \notin freshKeys

\* queryFn / mutationFn: the call of the recipes API with `arg`
CallApi(h, arg) ==
    IF h = "generate"
    THEN /\ generateCalls' = Append(generateCalls, arg)
         /\ UNCHANGED << searchRequests, searchWarnings, searchResults >>
    ELSE /\ searchRequests' = searchRequests + getByIngredients(arg).requests
         /\ searchWarnings' = searchWarnings + getByIngredients(arg).warnings
         /\ searchResults' = Append(searchResults, getByIngredients(arg).result)
         /\ UNCHANGED generateCalls

\* an event of hook h; when `fetch`, queryFn runs and its data is cached
HookEvent(h, event, arg, fetch) ==
    /\ Len(hookLog) < MaxHookEvents
    /\ hookLog' = Append(hookLog, [hook |-> h, event |-> event, arg |-> arg, fetched |-> fetch])
    /\ IF fetch
       THEN /\ CallApi(h, arg)
            /\ freshKeys' = freshKeys \cup { recipeKeys(h, arg) }
       ELSE UNCHANGED << generateCalls, searchRequests, searchWarnings, searchResults, freshKeys >>
    /\ UNCHANGED << retryVars, toastVars, clientVars >>

\* a component calling useGenerateRecipes(arg) / useSearchRecipes(arg) mounts
Mount ==
    \E h \in Hooks, arg \in HookArgs :
        /\ ~hookMounted[h]
        /\ hookMounted' = [hookMounted EXCEPT ![h] = TRUE]
        /\ hookArg' = [hookArg EXCEPT ![h] = arg]
        /\ HookEvent(h, "mount", arg, fetchesByItself(h, arg))

\* the component renders with another argument: the query key changes
ChangeKey ==
    \E h \in Hooks, arg \in HookArgs :
        /\ hookMounted[h]
        /\ arg # hookArg[h]
        /\ hookArg' = [hookArg EXCEPT ![h] = arg]
        /\ HookEvent(h, "key", arg, fetchesByItself(h, arg))
        /\ UNCHANGED hookMounted

\* the window regains focus or the network reconnects
WindowFocus ==
    \E h \in Hooks :
        /\ hookMounted[h]
        /\ HookEvent(h, "focus", hookArg[h], fetchesByItself(h, hookArg[h]))
        /\ UNCHANGED << hookMounted, hookArg >>

\* the component calls the refetch() the hook returned
Refetch ==
    \E h \in Hooks :
        /\ hookMounted[h]
        /\ HookEvent(h, "refetch", hookArg[h], TRUE)
        /\ UNCHANGED << hookMounted, hookArg >>

\* useGenerateRecipesMutation / useSearchRecipesMutation: mutate(arg)
Mutate ==
    \E h \in Hooks, arg \in HookArgs \cup { <<>> } :
        /\ Len(hookLog) < MaxHookEvents
        /\ hookLog' = Append(hookLog, [hook |-> h, event |-> "mutate", arg |-> arg, fetched |-> TRUE])
        /\ CallApi(h, arg)
        /\ UNCHANGED << hookMounted, hookArg, freshKeys >>
        /\ UNCHANGED << retryVars, toastVars, clientVars >>

Unmount ==
    \E h \in Hooks :
        /\ hookMounted[h]
        /\ hookMounted' = [hookMounted EXCEPT ![h] = FALSE]
        /\ UNCHANGED << hookArg, freshKeys, hookLog, generateCalls,
                        searchRequests, searchWarnings, searchResults >>
        /\ UNCHANGED << retryVars, toastVars, clientVars >>

\* staleTime (10 minutes) passes: the cached data is stale
StaleTimePasses ==
    /\ freshKeys # {}
    /\ freshKeys' = {}
    /\ UNCHANGED << hookMounted, hookArg, hookLog, generateCalls,
                    searchRequests, searchWarnings, searchResults >>
    /\ UNCHANGED << retryVars, toastVars, clientVars >>

\* ---------------------------------------------------------------- Toast

EXIT_MS == 200
DEFAULT_DURATION == 5000

\* the duration argument of a call: omitted, or a number of milliseconds
NoDuration == [given |-> FALSE, ms |-> 0]
Duration(ms) == [given |-> TRUE, ms |-> ms]

\* the calls of the toast API the components make: each of the four methods,
\* without and with a duration
ToastCalls ==
    { [variant |-> "success", message |-> "Saved", duration |-> NoDuration],
      [variant |-> "error", message |-> "Upload failed", duration |-> NoDuration],
      [variant |-> "warning", message |-> "Expiring soon", duration |-> Duration(1500)],
      [variant |-> "info", message |-> "Scanning", duration |-> Duration(1500)] }

\* toasts added at most
MaxToasts == 2

\* calls of dismiss by the user at most
MaxDismissCalls == 1

\* the largest step of time between two events
ToastTickMs == 2500

\* (duration: number = DEFAULT_DURATION)
durationOrDefault(d) == IF d.given THEN d.ms ELSE DEFAULT_DURATION

ToastIds == { toasts[i].id : i \in 1..Len(toasts) }

\* setTimeout(callback, delay): the timer's record
Timer(handle, kind, id, delay) ==
    [handle |-> handle, kind |-> kind, id |-> id, remaining |-> delay]

\* prev.map((t) => (t.id === id ? { ...t, exiting: true } : t))
markExiting(prev, id) ==
    [i \in 1..Len(prev) |->
        IF prev[i].id = id THEN [prev[i] EXCEPT !.exiting = TRUE] ELSE prev[i]]

\* prev.filter((t) => t.id !== id)
removeToast(prev, id) ==
    LET Keep(t) == t.id # id
    IN  SelectSeq(prev, Keep)

\* the handle timersRef.current holds for id, if any
trackedHandle(id) == IF id \in DOMAIN timersRef THEN { timersRef[id] } ELSE {}

\* a dismiss that clears the auto-dismiss timer and sets no removal timer
timersAfterDismissNoRemoval(pending, id) ==
    { t \in pending : t.handle \notin trackedHandle(id) }

\* the timers left pending by dismiss(id): the removal timer is set, the toast's
\* auto-dismiss timer (if timersRef has one) is cleared
timersAfterDismiss(pending, id) ==
    { t \in pending : t.handle \notin trackedHandle(id) }
      \cup { Timer(nextHandle, "remove", id, EXIT_MS) }

\* the timers left pending by the cleanup effect: those of timersRef are cleared
timersAfterCleanup ==
    { t \in pendingTimers : t.handle \notin { timersRef[id] : id \in DOMAIN timersRef } }

\* no toast has been removed yet
NoRemoval ==
    [id |-> 0, requested |-> [given |-> FALSE, ms |-> 0], exitedAt |-> 0 - 1,
     removedAt |-> 0 - 1, byUser |-> FALSE]

\* what toastClock records when dismiss(id) runs
clockAfterDismiss(id, byUser) ==
    [i \in DOMAIN toastClock |->
        IF i = id /\ toastClock[i].exitedAt < 0
        THEN [toastClock[i] EXCEPT !.exitedAt = toastClock[i].age, !.byUser = byUser]
        ELSE toastClock[i]]

\* dismiss(id), the whole callback, with `pending` the timers pending when it runs
dismiss(pending, id, byUser) ==
    /\ toasts' = markExiting(toasts, id)
    /\ pendingTimers' = timersAfterDismiss(pending, id)
    /\ nextHandle' = nextHandle + 1
    /\ timersRef' = [i \in (DOMAIN timersRef) \ {id} |-> timersRef[i]]
    /\ toastClock' = clockAfterDismiss(id, byUser)

\* a list with the new toast put first
prependToast(prev, item) == << item >> \o prev

\* setToasts((prev) => [...prev, item])
appendToast(prev, item) == Append(prev, item)

\* toast.success / error / warning / info (message, duration) -> add
AddToast ==
    /\ tpMounted
    /\ nextId < MaxToasts
    /\ \E call \in ToastCalls :
          LET id == nextId + 1
              d == call.duration
              duration == durationOrDefault(d)
              item == [id |-> id, variant |-> call.variant, message |-> call.message,
                       duration |-> duration, exiting |-> FALSE]
          IN  /\ nextId' = id
              /\ toasts' = appendToast(toasts, item)
              /\ pendingTimers' = pendingTimers \cup { Timer(nextHandle, "auto", id, duration) }
              /\ timersRef' = (id :> nextHandle) @@ timersRef
              /\ nextHandle' = nextHandle + 1
              /\ toastClock' = (id :> [requested |-> d, age |-> 0, exitedAt |-> -1,
                                       byUser |-> FALSE]) @@ toastClock
    /\ UNCHANGED << tpMounted, lastRemoved, dismissCalls, lateCallbacks >>
    /\ UNCHANGED << retryVars, hookVars, clientVars >>

\* the user clicks the dismiss button of a toast of the list
UserDismiss ==
    /\ tpMounted
    /\ dismissCalls < MaxDismissCalls
    /\ \E id \in ToastIds : dismiss(pendingTimers, id, TRUE)
    /\ dismissCalls' = dismissCalls + 1
    /\ UNCHANGED << tpMounted, nextId, lastRemoved, lateCallbacks >>
    /\ UNCHANGED << retryVars, hookVars, clientVars >>

\* an auto-dismiss timer fires: () => dismiss(id)
AutoDismissFires ==
    /\ \E t \in pendingTimers :
          /\ t.kind = "auto"
          /\ t.remaining = 0
          /\ dismiss(pendingTimers \ {t}, t.id, FALSE)
    /\ UNCHANGED << tpMounted, nextId, lastRemoved, dismissCalls, lateCallbacks >>
    /\ UNCHANGED << retryVars, hookVars, clientVars >>

\* a removal timer fires: setToasts((prev) => prev.filter((t) => t.id !== id))
RemovalFires ==
    /\ \E t \in pendingTimers :
          /\ t.kind = "remove"
          /\ t.remaining = 0
          /\ pendingTimers' = pendingTimers \ {t}
          /\ IF tpMounted
             THEN /\ toasts' = removeToast(toasts, t.id)
                  /\ toastClock' = [i \in (DOMAIN toastClock) \ {t.id} |-> toastClock[i]]
                  /\ lastRemoved' =
                        (IF t.id \in ToastIds
                         THEN [id |-> t.id,
                               requested |-> toastClock[t.id].requested,
                               exitedAt |-> toastClock[t.id].exitedAt,
                               removedAt |-> toastClock[t.id].age,
                               byUser |-> toastClock[t.id].byUser]
                         ELSE lastRemoved)
                  /\ UNCHANGED lateCallbacks
             ELSE /\ lateCallbacks' = lateCallbacks + 1
                  /\ UNCHANGED << toasts, toastClock, lastRemoved >>
    /\ UNCHANGED << tpMounted, nextId, timersRef, nextHandle, dismissCalls >>
    /\ UNCHANGED << retryVars, hookVars, clientVars >>

\* the steps of time possible now: up to the next timer's deadline
ToastTickSteps ==
    LET next == CHOOSE m \in { t.remaining : t \in pendingTimers } :
                    \A t \in pendingTimers : m <= t.remaining
    IN  { next } \cup { d \in { ToastTickMs } : d < next }

\* time passes; a timer that is due fires before more time passes
ToastTick ==
    /\ pendingTimers # {}
    /\ \A t \in pendingTimers : t.remaining > 0
    /\ \E d \in ToastTickSteps :
          /\ pendingTimers' = { [t EXCEPT !.remaining = t.remaining - d] : t \in pendingTimers }
          /\ toastClock' =
                [i \in DOMAIN toastClock |->
                    [toastClock[i] EXCEPT !.age = toastClock[i].age + d]]
    /\ UNCHANGED << tpMounted, toasts, nextId, timersRef, nextHandle, lastRemoved,
                    dismissCalls, lateCallbacks >>
    /\ UNCHANGED << retryVars, hookVars, clientVars >>

\* the ToastProvider unmounts: the cleanup of the effect runs, and the
\* component's state (the toasts list) goes with the component
UnmountProvider ==
    /\ tpMounted
    /\ tpMounted' = FALSE
    /\ pendingTimers' = timersAfterCleanup
    /\ timersRef' = << >>
    /\ toasts' = << >>
    /\ toastClock' = << >>
    /\ UNCHANGED << nextId, nextHandle, lastRemoved, dismissCalls, lateCallbacks >>
    /\ UNCHANGED << retryVars, hookVars, clientVars >>

\* ---------------------------------------------------------------- useToast

MaxUseToastCalls == 3

\* the ToastProvider instances of the tree
ProviderIds == { 1, 2 }
NoProvider == 0

\* the toast object a provider builds at each render, named by its provider
ToastApi(p) == [provider |-> p]
NoApi == ToastApi(NoProvider)

\* createContext<ToastContextValue | null>(null)
NullContext == [isNull |-> TRUE, toast |-> NoApi]
\* <ToastContext.Provider value={{ toast }}>
ProviderValue(p) == [isNull |-> FALSE, toast |-> ToastApi(p)]

\* the providers above a component, outermost first
ProviderChains == { <<>>, << 1 >>, << 2 >>, << 1, 2 >>, << 2, 1 >> }

\* useContext(ToastContext): the value of the nearest provider above, else the default
useContext(ancestors) ==
    IF ancestors = <<>> THEN NullContext
    ELSE ProviderValue(ancestors[Len(ancestors)])

USE_TOAST_MESSAGE == "useToast must be used within a <ToastProvider>"

Thrown(message) == [threw |-> TRUE, message |-> message, returned |-> NoApi]
Returned(api) == [threw |-> FALSE, message |-> "", returned |-> api]

\* a useToast without the null check
useToastUnchecked(ctx) == Returned(ctx.toast)

useToast(ctx) ==
    IF ctx.isNull THEN Thrown(USE_TOAST_MESSAGE)
    ELSE Returned(ctx.toast)

\* a component renders and calls useToast()
CallUseToast ==
    /\ Len(useToastLog) < MaxUseToastCalls
    /\ \E ancestors \in ProviderChains :
          useToastLog' = Append(useToastLog,
                                [ancestors |-> ancestors,
                                 outcome |-> useToast(useContext(ancestors))])
    /\ UNCHANGED << retryVars, hookVars, toastVars, pageVars, scanVars, skeletonVars >>

\* ---------------------------------------------------------------- RecipesPage

EXPIRING_DAYS == 3

MaxInventory == 2
MaxGenerateCalls == 1

MS_PER_HOUR == 1000 * 60 * 60
MS_PER_DAY == 1000 * 60 * 60 * 24

\* strings are sequences of characters
Str_empty == <<>>
Str_blank == << " ", " " >>
Str_egg == << "e", "g", "g" >>
Str_Egg_padded == << " ", "E", "g", "g", " " >>
Str_MILK == << "M", "I", "L", "K" >>

ItemNameStrings == { Str_empty, Str_blank, Str_egg, Str_Egg_padded, Str_MILK }

\* String.prototype.toLowerCase, character by character
lowerChar(c) ==
    CASE c = "E" -> "e"
      [] c = "M" -> "m"
      [] c = "I" -> "i"
      [] c = "L" -> "l"
      [] c = "K" -> "k"
      [] OTHER -> c

toLowerCase(s) == [i \in 1..Len(s) |-> lowerChar(s[i])]

isWhiteSpace(c) == c = " "

RECURSIVE trimStart(_)
trimStart(s) ==
    IF s # <<>> /\ isWhiteSpace(Head(s)) THEN trimStart(Tail(s)) ELSE s

RECURSIVE trimEnd(_)
trimEnd(s) ==
    IF s # <<>> /\ isWhiteSpace(s[Len(s)]) THEN trimEnd(SubSeq(s, 1, Len(s) - 1)) ELSE s

\* String.prototype.trim
trim(s) == trimEnd(trimStart(s))

\* a local time: a calendar day and the hour of that day
LocalTime(day, hour) == [day |-> day, hour |-> hour]

\* Date.prototype.getTime, counted from the local midnight of day 0
getTime(t) == t.day * MS_PER_DAY + t.hour * MS_PER_HOUR

\* the values of item.expiration_date: '', a string Date cannot parse, a date
EmptyDate == [kind |-> "empty", at |-> LocalTime(0, 0)]
InvalidDate == [kind |-> "invalid", at |-> LocalTime(0, 0)]
ValidDate(day, hour) == [kind |-> "valid", at |-> LocalTime(day, hour)]

ExpirationDates ==
    { EmptyDate, InvalidDate, ValidDate(-1, 12), ValidDate(3, 23), ValidDate(4, 0) }

\* the hours of the day at which the page computes itemNames
NowHours == { 0, 13 }

InventoryItems ==
    [item_name : ItemNameStrings, expiration_date : ExpirationDates]

\* numbers, with Infinity
Infinity == [finite |-> FALSE, n |-> 0]
Finite(n) == [finite |-> TRUE, n |-> n]
atMost(x, k) == x.finite /\ x.n <= k

\* date.setHours(0, 0, 0, 0); date.getTime()
startOfDay(ms) == (ms \div MS_PER_DAY) * MS_PER_DAY

\* Math.ceil(a / b) for b > 0
ceilDiv(a, b) == -((-a) \div b)

\* getDaysUntil comparing the two times as they are, not their midnights
getDaysUntilToTheHour(date, now) ==
    IF date.kind = "empty" THEN Infinity
    ELSE IF date.kind = "invalid" THEN Infinity
    ELSE Finite(ceilDiv(getTime(date.at) - getTime(now), MS_PER_DAY))

getDaysUntil(date, now) ==
    IF date.kind = "empty" THEN Infinity
    ELSE IF date.kind = "invalid" THEN Infinity
    ELSE Finite(ceilDiv(startOfDay(getTime(date.at)) - startOfDay(getTime(now)),
                        MS_PER_DAY))

\* the elements of a sequence
Range(seq) == { seq[i] : i \in 1..Len(seq) }

\* Set.prototype.add; a Set keeps insertion order
setAdd(set, x) == IF x \in Range(set) THEN set ELSE Append(set, x)

\* the for loop of getItemNames
RECURSIVE getItemNamesLoop(_, _, _, _)
getItemNamesLoop(list, now, expiringSet, allSet) ==
    IF list = <<>> THEN [expiring |-> expiringSet, all |-> allSet]
    ELSE LET item == Head(list)
             name == trim(toLowerCase(item.item_name))
         IN  IF name = <<>>
             THEN getItemNamesLoop(Tail(list), now, expiringSet, allSet)
             ELSE getItemNamesLoop(
                      Tail(list), now,
                      IF atMost(getDaysUntil(item.expiration_date, now), EXPIRING_DAYS)
                      THEN setAdd(expiringSet, name)
                      ELSE expiringSet,
                      setAdd(allSet, name))

getItemNames(list, now) == getItemNamesLoop(list, now, <<>>, <<>>)

EMPTY_FRIDGE_MESSAGE == "Your fridge is empty! Scan some food first."

\* the expiring names followed by all names, unfiltered
namesUnfiltered(names) == names.expiring \o names.all

\* handleGenerate: const names = [...itemNames.expiring, ...nonExpiring]
namesToSend(names) ==
    LET expiringSet == Range(names.expiring)
        NotExpiring(n) == n \notin expiringSet
        nonExpiring == SelectSeq(names.all, NotExpiring)
    IN  names.expiring \o nonExpiring

\* what recipesApi.generate resolves to and rejects with
GeneratedRecipes == { <<>>, << "omelette" >> }
GenerateFailures == { RATE_LIMIT_MESSAGE }

\* useInventory delivers new data with one more item; itemNames is recomputed
InventoryGrows ==
    /\ Len(inventoryItems) < MaxInventory
    /\ \E item \in InventoryItems, hour \in NowHours :
          LET list == Append(inventoryItems, item)
              now == LocalTime(0, hour)
          IN  /\ inventoryItems' = list
              /\ pageNow' = now
              /\ itemNames' = getItemNames(list, now)
    /\ UNCHANGED << status, pageError, generateArgs, pageRecipes, pagePending >>
    /\ UNCHANGED << retryVars, hookVars, toastVars, consumerVars, scanVars, skeletonVars >>

\* handleGenerate, up to its await (or to its end when the fridge is empty)
HandleGenerate ==
    /\ IF Len(itemNames.all) = 0
       THEN /\ pageError' = EMPTY_FRIDGE_MESSAGE
            /\ pageRecipes' = <<>>
            /\ status' = "error"
            /\ UNCHANGED << generateArgs, pagePending >>
       ELSE /\ Len(generateArgs) < MaxGenerateCalls
            /\ status' = "loading"
            /\ pageError' = ""
            /\ generateArgs' = Append(generateArgs,
                                      [itemNames |-> itemNames,
                                       names |-> namesToSend(itemNames)])
            /\ pagePending' = pagePending + 1
            /\ UNCHANGED pageRecipes
    /\ UNCHANGED << inventoryItems, pageNow, itemNames >>
    /\ UNCHANGED << retryVars, hookVars, toastVars, consumerVars, scanVars, skeletonVars >>

\* recipesApi.generate resolves: finally sets the recipes and 'loaded'
GenerateResolves ==
    /\ pagePending > 0
    /\ \E recipes \in GeneratedRecipes :
          pageRecipes' = recipes
    /\ status' = "loaded"
    /\ pagePending' = pagePending - 1
    /\ UNCHANGED << inventoryItems, pageNow, itemNames, pageError, generateArgs >>
    /\ UNCHANGED << retryVars, hookVars, toastVars, consumerVars, scanVars, skeletonVars >>

\* recipesApi.generate rejects: catch sets the error, finally [] and 'error'
GenerateRejects ==
    /\ pagePending > 0
    /\ \E message \in GenerateFailures :
          pageError' = message
    /\ pageRecipes' = <<>>
    /\ status' = "error"
    /\ pagePending' = pagePending - 1
    /\ UNCHANGED << inventoryItems, pageNow, itemNames, generateArgs >>
    /\ UNCHANGED << retryVars, hookVars, toastVars, consumerVars, scanVars, skeletonVars >>

\* ---------------------------------------------------------------- scanApi

MaxUploadCalls == 1
MaxHistoryCalls == 1

MAX_FILE_SIZE == 10 * 1024 * 1024

ALLOWED_TYPES == { "image/jpeg", "image/png", "image/webp", "image/heic", "image/heif" }

\* the File objects passed to uploadImage: their type and size
FileTypes == ALLOWED_TYPES \cup { "image/gif", "" }
FileSizes == { 0, MAX_FILE_SIZE - 1, MAX_FILE_SIZE, MAX_FILE_SIZE + 1 }
Files == [type : FileTypes, size : FileSizes]
NoFile == [type |-> "", size |-> 0]

\* the messages of validateImageFile, without the interpolated type and size
INVALID_FORMAT_MESSAGE == "Invalid file format. Accepted: JPEG, PNG, WebP, HEIC."
TOO_LARGE_MESSAGE == "File is too large. Maximum size is 10 MB."

\* a function that returns normally, or throws
Returns == [threw |-> FALSE, error |-> NoError]
Throws(error) == [threw |-> TRUE, error |-> error]

\* validateImageFile rejecting a file of exactly the maximum size too
validateImageFileBelowMax(file) ==
    IF file.type \notin ALLOWED_TYPES
    THEN Throws(ApiError(422, INVALID_FORMAT_MESSAGE, NoBody))
    ELSE IF file.size >= MAX_FILE_SIZE
    THEN Throws(ApiError(413, TOO_LARGE_MESSAGE, NoBody))
    ELSE Returns

validateImageFile(file) ==
    IF file.type \notin ALLOWED_TYPES
    THEN Throws(ApiError(422, INVALID_FORMAT_MESSAGE, NoBody))
    ELSE IF file.size > MAX_FILE_SIZE
    THEN Throws(ApiError(413, TOO_LARGE_MESSAGE, NoBody))
    ELSE Returns

\* what upload('/api/scan', ...) resolves to (the detected items) and rejects with
ScanResponses == { << "milk", "egg" >> }
UploadErrors ==
    { ApiError(st, "Request failed", NoBody) : st \in { 413, 422, 500, 503 } }
        \cup { NetworkError }

\* the catch of uploadImage
uploadCatch(error) ==
    IF isApiError(error) /\ error.status = 413
    THEN ApiError(413, "File is too large. Please use a smaller image.", error.data)
    ELSE IF isApiError(error) /\ error.status = 422
    THEN ApiError(422, "Image could not be processed. Try a different photo.", error.data)
    ELSE IF isApiError(error) /\ error.status = 500
    THEN ApiError(500, "Detection failed. Please try again.", error.data)
    ELSE error

UploadCall(file, sent, outcome) == [file |-> file, sent |-> sent, result |-> outcome]

\* scanApi.uploadImage(file), up to its await (or to the throw of the validation)
UploadImage ==
    /\ scanPc = "idle"
    /\ Len(uploadLog) < MaxUploadCalls
    /\ \E file \in Files :
          LET checked == validateImageFile(file)
          IN  IF checked.threw
              THEN /\ uploadLog' = Append(uploadLog,
                                          UploadCall(file, FALSE, Rejected(checked.error)))
                   /\ UNCHANGED << scanPc, scanArg, uploadRequests >>
              ELSE /\ uploadRequests' = Append(uploadRequests, file)
                   /\ scanArg' = file
                   /\ scanPc' = "uploading"
                   /\ UNCHANGED uploadLog
    /\ UNCHANGED historyLog
    /\ UNCHANGED << retryVars, hookVars, toastVars, consumerVars, pageVars, skeletonVars >>

\* upload resolves: uploadImage returns the response
UploadResolves ==
    /\ scanPc = "uploading"
    /\ \E response \in ScanResponses :
          uploadLog' = Append(uploadLog, UploadCall(scanArg, TRUE, Resolved(response)))
    /\ scanPc' = "idle"
    /\ scanArg' = NoFile
    /\ UNCHANGED << uploadRequests, historyLog >>
    /\ UNCHANGED << retryVars, hookVars, toastVars, consumerVars, pageVars, skeletonVars >>

\* upload rejects: the catch of uploadImage
UploadRejects ==
    /\ scanPc = "uploading"
    /\ \E error \in UploadErrors :
          uploadLog' = Append(uploadLog,
                              UploadCall(scanArg, TRUE, Rejected(uploadCatch(error))))
    /\ scanPc' = "idle"
    /\ scanArg' = NoFile
    /\ UNCHANGED << uploadRequests, historyLog >>
    /\ UNCHANGED << retryVars, hookVars, toastVars, consumerVars, pageVars, skeletonVars >>

\* what get('/api/scans/:userId') resolves to: { success, data? }
NoData == [hasData |-> FALSE, data |-> <<>>]
Data(list) == [hasData |-> TRUE, data |-> list]
HistoryResponses == { NoData, Data(<<>>), Data(<< "scan 1" >>), Data(<< "scan 1", "scan 2" >>) }
HistoryErrors ==
    { ApiError(st, "Request failed", NoBody) : st \in HttpStatuses } \cup { NetworkError }

\* response.data ?? []
dataOrEmpty(response) == IF response.hasData THEN response.data ELSE <<>>

\* a catch of getScanHistory that turns every ApiError into []
historyCatchAnyApiError(error) ==
    IF isApiError(error) THEN Resolved(<<>>) ELSE Rejected(error)

\* the catch of getScanHistory
historyCatch(error) ==
    IF isApiError(error) /\ error.status = 404 THEN Resolved(<<>>) ELSE Rejected(error)

\* scanApi.getScanHistory(userId), up to its await
GetScanHistory ==
    /\ scanPc = "idle"
    /\ Len(historyLog) < MaxHistoryCalls
    /\ scanPc' = "fetching"
    /\ UNCHANGED << scanArg, uploadRequests, uploadLog, historyLog >>
    /\ UNCHANGED << retryVars, hookVars, toastVars, consumerVars, pageVars, skeletonVars >>

\* get resolves
GetResolves ==
    /\ scanPc = "fetching"
    /\ \E response \in HistoryResponses :
          historyLog' = Append(historyLog,
                               [settled |-> "resolved", response |-> response,
                                error |-> NoError,
                                result |-> Resolved(dataOrEmpty(response))])
    /\ scanPc' = "idle"
    /\ UNCHANGED << scanArg, uploadRequests, uploadLog >>
    /\ UNCHANGED << retryVars, hookVars, toastVars, consumerVars, pageVars, skeletonVars >>

\* get rejects
GetRejects ==
    /\ scanPc = "fetching"
    /\ \E error \in HistoryErrors :
          historyLog' = Append(historyLog,
                               [settled |-> "rejected", response |-> NoData,
                                error |-> error,
                                result |-> historyCatch(error)])
    /\ scanPc' = "idle"
    /\ UNCHANGED << scanArg, uploadRequests, uploadLog >>
    /\ UNCHANGED << retryVars, hookVars, toastVars, consumerVars, pageVars, skeletonVars >>

\* ---------------------------------------------------------------- loading skeletons

MaxRenders == 3

\* the components that call injectShimmerStyle when they render
SkeletonComponents == { "SkeletonBox", "SkeletonText", "SkeletonCircle", "SkeletonImage" }

\* an injectShimmerStyle that sets the flag before it looks for the document
injectShimmerStyleFlagFirst(injected, hasDocument) ==
    IF injected
    THEN [appended |-> FALSE, injected |-> injected]
    ELSE [appended |-> hasDocument, injected |-> TRUE]

\* injectShimmerStyle: whether it appends a <style>, and the flag it leaves
injectShimmerStyle(injected, hasDocument) ==
    IF injected \/ ~hasDocument
    THEN [appended |-> FALSE, injected |-> injected]
    ELSE [appended |-> TRUE, injected |-> TRUE]

\* a skeleton component renders
RenderSkeleton ==
    /\ Len(skeletonRenders) < MaxRenders
    /\ \E component \in SkeletonComponents :
          LET done == injectShimmerStyle(styleInjected, documentDefined)
          IN  /\ styleInjected' = done.injected
              /\ headStyles' = IF done.appended THEN headStyles + 1 ELSE headStyles
              /\ skeletonRenders' = Append(skeletonRenders,
                                           [component |-> component,
                                            document |-> documentDefined,
                                            appended |-> done.appended])
    /\ UNCHANGED documentDefined
    /\ UNCHANGED << retryVars, hookVars, toastVars, consumerVars, pageVars, scanVars >>

\* the module, loaded where there is no document, now runs where there is one
DocumentAppears ==
    /\ ~documentDefined
    /\ documentDefined' = TRUE
    /\ UNCHANGED << styleInjected, headStyles, skeletonRenders >>
    /\ UNCHANGED << retryVars, hookVars, toastVars, consumerVars, pageVars, scanVars >>

Init ==
    /\ pc = "idle"
    /\ items = <<>>
    /\ attempt = 0
    /\ lastError = NoError
    /\ fnCalls = 0
    /\ posts = 0
    /\ postLog = <<>>
    /\ fnLog = <<>>
    /\ delays = <<>>
    /\ waited = 0
    /\ waits = <<>>
    /\ retryResult = Pending
    /\ result = Pending
    /\ hookMounted = [h \in Hooks |-> FALSE]
    /\ hookArg = [h \in Hooks |-> <<>>]
    /\ freshKeys = {}
    /\ hookLog = <<>>
    /\ generateCalls = <<>>
    /\ searchRequests = 0
    /\ searchWarnings = 0
    /\ searchResults = <<>>
    /\ tpMounted = TRUE
    /\ toasts = <<>>
    /\ nextId = 0
    /\ timersRef = << >>
    /\ pendingTimers = {}
    /\ nextHandle = 1
    /\ toastClock = << >>
    /\ lastRemoved = NoRemoval
    /\ dismissCalls = 0
    /\ lateCallbacks = 0
    /\ useToastLog = <<>>
    /\ inventoryItems = <<>>
    /\ pageNow = LocalTime(0, 0)
    /\ itemNames = [expiring |-> <<>>, all |-> <<>>]
    /\ status = "empty"
    /\ pageError = ""
    /\ generateArgs = <<>>
    /\ pageRecipes = <<>>
    /\ pagePending = 0
    /\ scanPc = "idle"
    /\ scanArg = NoFile
    /\ uploadRequests = <<>>
    /\ uploadLog = <<>>
    /\ historyLog = <<>>
    /\ styleInjected = FALSE
    /\ documentDefined = FALSE
    /\ headStyles = 0
    /\ skeletonRenders = <<>>

Next ==
    \/ Generate
    \/ PostResolves
    \/ PostRejects
    \/ Tick
    \/ TimerFires

Spec == Init /\ [][Next]_vars

HookNext ==
    \/ Mount
    \/ ChangeKey
    \/ WindowFocus
    \/ Refetch
    \/ Mutate
    \/ Unmount
    \/ StaleTimePasses

HookSpec == Init /\ [][HookNext]_vars

ToastNext ==
    \/ AddToast
    \/ UserDismiss
    \/ AutoDismissFires
    \/ RemovalFires
    \/ ToastTick
    \/ UnmountProvider

ToastSpec == Init /\ [][ToastNext]_vars

\* time passes and every timer that is due fires
FairToastSpec ==
    /\ ToastSpec
    /\ WF_vars(ToastTick)
    /\ WF_vars(AutoDismissFires)
    /\ WF_vars(RemovalFires)

\* each POST settles, each scheduled timer fires, and time passes
FairSpec ==
    /\ Spec
    /\ WF_vars(PostResolves \/ PostRejects)
    /\ WF_vars(Tick)
    /\ WF_vars(TimerFires)

UseToastNext ==
    \/ CallUseToast

UseToastSpec == Init /\ [][UseToastNext]_vars

PageNext ==
    \/ InventoryGrows
    \/ HandleGenerate
    \/ GenerateResolves
    \/ GenerateRejects

PageSpec == Init /\ [][PageNext]_vars

ScanNext ==
    \/ UploadImage
    \/ UploadResolves
    \/ UploadRejects
    \/ GetScanHistory
    \/ GetResolves
    \/ GetRejects

ScanSpec == Init /\ [][ScanNext]_vars

SkeletonNext ==
    \/ RenderSkeleton
    \/ DocumentAppears

SkeletonSpec == Init /\ [][SkeletonNext]_vars

\* ---------------------------------------------------------------- claims C1..C6

\* a rejection that is not an ApiError with status 429 or 503
NotRetryableRejection(o) ==
    /\ o.state = "rejected"
    /\ ~(o.error.kind = "ApiError" /\ (o.error.status = 429 \/ o.error.status = 503))

\* C1: when a call of fn rejects with an error that is not an ApiError with status
\* 429 or 503, withRetry rejects with that same error at once: fn is not invoked
\* again and no delay is scheduled for that failure.
C1_NonRetryableErrorIsThrownImmediately ==
    \A i \in 1..Len(fnLog) :
        NotRetryableRejection(fnLog[i]) =>
            /\ i = Len(fnLog)
            /\ fnCalls = i
            /\ Len(delays) = i - 1
            /\ pc = "done"
            /\ retryResult = Rejected(fnLog[i].error)

C1_Witness ==
    /\ pc = "done"
    /\ Len(fnLog) = 3
    /\ NotRetryableRejection(fnLog[3])
    /\ fnLog[3].error.status = 500

\* C2: in one call of withRetry fn is invoked at most 4 times (1 initial attempt
\* plus 3 retries), so one call of generate sends at most 4 POST requests.
C2_AtMostFourAttempts ==
    /\ fnCalls <= 4
    /\ posts <= 4
    /\ Len(delays) <= 3

C2_Witness ==
    /\ pc = "done"
    /\ fnCalls = 4
    /\ posts = 4

\* C3: after the failed attempt k (k = 0, 1, 2) with a retryable error withRetry
\* waits a delay d with 1000 * 2^k <= d < 1000 * 2^k + 500, and attempt k + 1
\* does not start before that wait has elapsed.
C3_ExponentialBackoffWithJitter ==
    /\ Len(delays) <= 3
    /\ \A k \in 0..(Len(delays) - 1) :
          /\ << 1000, 2000, 4000 >>[k + 1] <= delays[k + 1]
          /\ delays[k + 1] < << 1000, 2000, 4000 >>[k + 1] + 500
          /\ fnLog[k + 1].state = "rejected"
          /\ fnLog[k + 1].error.status \in {429, 503}
    /\ \A k \in 1..Len(fnLog) :
          (k <= 3 /\ fnLog[k].state = "rejected" /\ ~NotRetryableRejection(fnLog[k]))
              => Len(delays) >= k
    /\ Len(waits) <= Len(delays)
    /\ \A k \in 1..Len(waits) : waits[k] >= delays[k]
    /\ fnCalls <= Len(waits) + 1

C3_Witness ==
    /\ Len(waits) = 3
    /\ delays[1] = 1000
    /\ delays[2] = 2250
    /\ delays[3] = 4499
    /\ fnCalls = 4

\* C4: every call of generate eventually settles, provided each POST settles and
\* each scheduled timer fires; also when every answer is 429 or 503.
C4_GenerateEventuallySettles ==
    (pc # "idle") ~> (pc = "done" /\ result.state # "pending")

C4_Witness ==
    /\ pc = "done"
    /\ result.state = "rejected"
    /\ Len(fnLog) = 4
    /\ \A i \in 1..4 : fnLog[i].state = "rejected" /\ fnLog[i].error.status \in {429, 503}

\* C5: when the backend answers 200 with a non-empty error field, generate rejects
\* with an ApiError of status 200 whose message is response.message when that is
\* non-empty and response.error otherwise; the failure is not retried (no POST
\* follows it) and no recipe list is returned.
C5_ErrorFieldRejectsWithoutRetry ==
    \A i \in 1..Len(postLog) :
        (postLog[i].state = "resolved" /\ Truthy(postLog[i].value.error)) =>
            /\ i = Len(postLog)
            /\ posts = i
            /\ pc = "done"
            /\ result.state = "rejected"
            /\ result.error.kind = "ApiError"
            /\ result.error.status = 200
            /\ result.error.message =
                  (IF Truthy(postLog[i].value.message)
                   THEN postLog[i].value.message
                   ELSE postLog[i].value.error)

C5_Witness ==
    /\ pc = "done"
    /\ Len(postLog) = 2
    /\ postLog[2].state = "resolved"
    /\ postLog[2].value.error = "Gemini failed"
    /\ postLog[2].value.message = "Quota exceeded"
    /\ result.error.message = "Quota exceeded"

\* C6: whenever generate rejects with status 429, the error is a new ApiError with
\* the fixed rate-limit message carrying the data of the original error, and
\* exactly 4 POST requests were sent before it.
C6_RateLimitSurfacedAfterAllRetries ==
    (result.state = "rejected" /\ result.error.status = 429) =>
        /\ result.error.kind = "ApiError"
        /\ result.error.message =
              "Recipe generation is rate-limited. Please wait a moment and try again."
        /\ retryResult.state = "rejected"
        /\ retryResult.error.status = 429
        /\ result.error.data = retryResult.error.data
        /\ result.error # retryResult.error
        /\ retryResult.error = postLog[4].error
        /\ posts = 4
        /\ Len(postLog) = 4

C6_Witness ==
    /\ result.state = "rejected"
    /\ result.error.status = 429
    /\ postLog[1].error.status = 503
    /\ result.error.data.message = "detail B"

\* ---------------------------------------------------------------- claims C7, C8

\* C7: getByIngredients returns an empty array for every input and never sends a
\* request to the backend.
C7_SearchReturnsEmptyWithoutRequest ==
    /\ searchRequests = 0
    /\ \A i \in 1..Len(searchResults) :
          searchResults[i].state = "resolved" /\ Len(searchResults[i].value) = 0

C7_Witness ==
    /\ Len(searchResults) = 2
    /\ \E i, j \in 1..Len(hookLog) :
          /\ hookLog[i].hook = "search" /\ hookLog[i].fetched /\ hookLog[i].arg = << "milk", "egg" >>
          /\ hookLog[j].hook = "search" /\ hookLog[j].fetched /\ hookLog[j].arg = <<>>

\* the recipes API calls caused by the query hooks themselves
CallsNotByRefetch ==
    { i \in 1..Len(hookLog) :
        hookLog[i].fetched /\ hookLog[i].event \in {"mount", "key", "focus"} }

\* C8: useGenerateRecipes and useSearchRecipes are disabled by default: mounting
\* the hook or changing its key never calls the recipes API; a query hook calls
\* it only in response to an explicit refetch().
C8_QueryHooksCallApiOnlyOnRefetch ==
    /\ CallsNotByRefetch = {}
    /\ Len(generateCalls) + Len(searchResults) =
          Cardinality({ i \in 1..Len(hookLog) : hookLog[i].event \in {"refetch", "mutate"} })

C8_Witness ==
    /\ Len(hookLog) = 3
    /\ hookLog[1].event = "mount" /\ hookLog[1].hook = "generate"
    /\ hookLog[2].event = "key" /\ hookLog[2].hook = "generate"
    /\ hookLog[3].event = "refetch" /\ hookLog[3].hook = "generate"
    /\ generateCalls = << hookLog[2].arg >>

\* ---------------------------------------------------------------- claims C9, C10

\* the duration asked for: the argument, or 5000 when it was omitted
RequestedDuration(requested) == IF requested.given THEN requested.ms ELSE 5000

\* a toast the user never dismissed is marked exiting when its age is its
\* duration, not before, and leaves the list 200 ms later
AutoDismissTiming ==
    /\ DOMAIN toastClock = ToastIds
    /\ \A k \in 1..Len(toasts) :
          LET c == toastClock[toasts[k].id]
          IN  (tpMounted /\ ~c.byUser) =>
                 /\ toasts[k].duration = RequestedDuration(c.requested)
                 /\ toasts[k].exiting <=> c.exitedAt >= 0
                 /\ toasts[k].exiting => c.exitedAt = RequestedDuration(c.requested)
                 /\ ~toasts[k].exiting => c.age <= RequestedDuration(c.requested)
                 /\ c.age <= RequestedDuration(c.requested) + 200
    /\ (lastRemoved.id > 0 /\ ~lastRemoved.byUser) =>
          /\ lastRemoved.exitedAt = RequestedDuration(lastRemoved.requested)
          /\ lastRemoved.removedAt = RequestedDuration(lastRemoved.requested) + 200

\* C9: every toast added through toast.success/error/warning/info with duration
\* d (default 5000), while the ToastProvider stays mounted, is eventually removed
\* from the list without any user action: it is marked exiting when its
\* auto-dismiss timer fires after d ms and removed EXIT_MS = 200 ms later.
C9_ToastsAutoDismiss ==
    /\ \A id \in 1..MaxToasts :
          (tpMounted /\ id \in ToastIds) ~> (~tpMounted \/ id \notin ToastIds)
    /\ []AutoDismissTiming

C9_Witness ==
    /\ tpMounted
    /\ dismissCalls = 0
    /\ nextId = 2
    /\ toasts = << >>
    /\ lastRemoved.id = 1
    /\ lastRemoved.removedAt = 5200
    /\ lastRemoved.exitedAt = 5000

\* C10: when the ToastProvider unmounts, every timer it has pending is cancelled,
\* so no timer callback that updates the toast list runs after the unmount.
C10_TimersCancelledOnUnmount ==
    ~tpMounted => (pendingTimers = {} /\ lateCallbacks = 0)

\* ---------------------------------------------------------------- claims C11, C12

\* C11: useToast called outside every ToastProvider throws the Error
\* 'useToast must be used within a <ToastProvider>' and returns no API object;
\* called below a provider it returns the toast API of the nearest provider.
C11_UseToastNeedsProvider ==
    \A k \in 1..Len(useToastLog) :
        LET call == useToastLog[k]
            n == Len(call.ancestors)
        IN  /\ n = 0 =>
                /\ call.outcome.threw
                /\ call.outcome.message = "useToast must be used within a <ToastProvider>"
                /\ call.outcome.returned = NoApi
            /\ n > 0 =>
                /\ ~call.outcome.threw
                /\ call.outcome.returned.provider = call.ancestors[n]

\* one call outside every provider and one below two nested providers
C11_Witness ==
    /\ \E k \in 1..Len(useToastLog) : useToastLog[k].ancestors = <<>>
    /\ \E k \in 1..Len(useToastLog) : Len(useToastLog[k].ancestors) = 2

\* C12: toasts stack in creation order. add appends the new toast at the end,
\* with a fresh id greater than every earlier id, and leaves the existing toasts
\* unchanged; a dismissal only marks one toast as exiting and a removal only
\* takes one toast out: every other toast and their relative order stay.
C12_ToastsStackInCreationOrder ==
    [][ tpMounted' =>
          LET n == Len(toasts)
              m == Len(toasts')
          IN  \/ toasts' = toasts
              \/ /\ m = n + 1
                 /\ \A k \in 1..n : toasts'[k] = toasts[k]
                 /\ toasts'[m].id = nextId'
                 /\ toasts'[m].id > nextId
                 /\ \A k \in 1..n : toasts[k].id <= nextId
                 /\ \A k \in 1..n : toasts[k].id < toasts'[m].id
              \/ /\ m = n
                 /\ nextId' = nextId
                 /\ \E j \in 1..n :
                       /\ toasts'[j] = [toasts[j] EXCEPT !.exiting = TRUE]
                       /\ \A k \in (1..n) \ {j} : toasts'[k] = toasts[k]
              \/ /\ m = n - 1
                 /\ nextId' = nextId
                 /\ \E j \in 1..n :
                       toasts' = SubSeq(toasts, 1, j - 1) \o SubSeq(toasts, j + 1, n)
      ]_vars

\* toast 1 was removed while toast 2, created after it, is still shown
C12_Witness ==
    /\ tpMounted
    /\ lastRemoved.id = 1
    /\ Len(toasts) = 1
    /\ toasts[1].id = 2

\* ---------------------------------------------------------------- claims C13, C14

UpperCaseChars == { "E", "M", "I", "L", "K" }

NoDuplicates(seq) == \A i, j \in 1..Len(seq) : seq[i] = seq[j] => i = j

\* C13: the list handleGenerate passes to recipesApi.generate is
\* itemNames.expiring followed by the names of itemNames.all that are not
\* expiring; it holds every name of itemNames.all exactly once and no other name.
C13_GenerateGetsAllNamesExpiringFirst ==
    \A c \in 1..Len(generateArgs) :
        LET seen == generateArgs[c].itemNames
            names == generateArgs[c].names
            e == Len(seen.expiring)
            rest == SubSeq(names, e + 1, Len(names))
            Later(n) == n \notin Range(seen.expiring)
        IN  /\ Len(names) >= e
            /\ SubSeq(names, 1, e) = seen.expiring
            /\ rest = SelectSeq(seen.all, Later)
            /\ \A n \in Range(seen.all) :
                    Cardinality({ i \in 1..Len(names) : names[i] = n }) = 1
            /\ Range(names) \subseteq Range(seen.all)

\* milk came first in the inventory and is not expiring, egg is: egg is sent first
C13_Witness ==
    \E c \in 1..Len(generateArgs) :
        /\ generateArgs[c].itemNames.all = << trim(toLowerCase(Str_MILK)), Str_egg >>
        /\ generateArgs[c].itemNames.expiring = << Str_egg >>
        /\ generateArgs[c].names = << Str_egg, trim(toLowerCase(Str_MILK)) >>

C15_UploadValidatesTypeThenSize ==
    LET Allowed(f) ==
            f.type \in { "image/jpeg", "image/png", "image/webp", "image/heic", "image/heif" }
        TooLarge(f) == f.size > 10 * 1024 * 1024
        Refused(call, st) ==
            /\ ~call.sent
            /\ call.result.state = "rejected"
            /\ call.result.error.kind = "ApiError"
            /\ call.result.error.status = st
    IN  /\ \A k \in 1..Len(uploadLog) :
              LET call == uploadLog[k]
              IN  /\ ~Allowed(call.file) => Refused(call, 422)
                  /\ Allowed(call.file) /\ TooLarge(call.file) => Refused(call, 413)
                  /\ Allowed(call.file) /\ ~TooLarge(call.file) => call.sent
        /\ \A k \in 1..Len(uploadRequests) :
              Allowed(uploadRequests[k]) /\ ~TooLarge(uploadRequests[k])
        /\ Len(uploadRequests) =
              Cardinality({ k \in 1..Len(uploadLog) : uploadLog[k].sent })
                  + (IF scanPc = "uploading" THEN 1 ELSE 0)

\* a PNG one byte above the limit was refused with 413 and nothing was sent
C15_Witness ==
    /\ uploadRequests = <<>>
    /\ \E k \in 1..Len(uploadLog) :
          /\ uploadLog[k].file = [type |-> "image/png", size |-> MAX_FILE_SIZE + 1]
          /\ uploadLog[k].result.error.status = 413

\* C16: getScanHistory resolves to an array whenever the request succeeds or
\* fails with 404: to response.data when present, to [] when data is missing or
\* on an ApiError 404; every other error is rethrown unchanged.
C16_ScanHistoryIsAnArrayOr404Empty ==
    \A k \in 1..Len(historyLog) :
        LET call == historyLog[k]
            NotFound == call.error.kind = "ApiError" /\ call.error.status = 404
        IN  /\ call.settled = "resolved" /\ call.response.hasData =>
                call.result = Resolved(call.response.data)
            /\ call.settled = "resolved" /\ ~call.response.hasData =>
                call.result = Resolved(<<>>)
            /\ call.settled = "rejected" /\ NotFound =>
                call.result = Resolved(<<>>)
            /\ call.settled = "rejected" /\ ~NotFound =>
                call.result = Rejected(call.error)

\* the request failed with 404 and the call resolved to []
C16_Witness ==
    \E k \in 1..Len(historyLog) :
        /\ historyLog[k].settled = "rejected"
        /\ historyLog[k].error.status = 404
        /\ historyLog[k].result = Resolved(<<>>)

\* ---------------------------------------------------------------- claim C17

\* C17: over any sequence of renders of the skeleton components at most one
\* shimmer <style> is appended to document.head; while document is undefined
\* nothing is appended and styleInjected stays false, so that a later render
\* with a document still injects the style.
C17_ShimmerStyleInjectedOnce ==
    LET WithDocument == { k \in 1..Len(skeletonRenders) : skeletonRenders[k].document }
    IN  /\ headStyles <= 1
        /\ headStyles = Cardinality({ k \in 1..Len(skeletonRenders) :
                                        skeletonRenders[k].appended })
        /\ WithDocument = {} => headStyles = 0 /\ ~styleInjected
        /\ WithDocument # {} => headStyles = 1 /\ styleInjected

\* a render without a document, then two with one: the first of these appended
\* the style and the second did not
C17_Witness ==
    /\ Len(skeletonRenders) = 3
    /\ ~skeletonRenders[1].document
    /\ skeletonRenders[2].document /\ skeletonRenders[2].appended
    /\ skeletonRenders[3].document /\ ~skeletonRenders[3].appended
    /\ skeletonRenders[2].component # skeletonRenders[3].component
    /\ headStyles = 1

====
